---- MODULE Spec2Model ----
(***************************************************************************)
(* Gesture alert system: GestureDetector (gesture_detector.py),            *)
(* AlertSystem (alert_system.py) and SafetyApp (main.py).                  *)
(*                                                                         *)
(* Time is counted in whole seconds.  The primary thread is modelled by a  *)
(* program counter pc and a stack of return labels; every playback worker  *)
(* thread by its own position in threads.                                  *)
(***************************************************************************)
EXTENDS Integers, Sequences, FiniteSets, TLC

\* ------------------------------------------------------------------ bounds
\* Largest clock value a frame may carry.
MaxTime == 6
\* Largest clock advance between two consecutive frames.
MaxStep == 3
\* Longest frame history kept by the detector specification.
MaxFrames == 4

\* Number of thread objects that may exist at once (a thread that has
\* finished and is no longer referenced frees its place).
MaxThreads == 2
\* Number of AlertSystem calls the primary thread makes in the alert
\* specification.
MaxCalls == 4

\* Largest landmark coordinate in the classifier specification.
MaxCoord == 1

\* Number of frames the application's loop processes.
MaxLoop == 5
\* Largest backward step of the wall clock between two frames, and the number
\* of frames the loop processes under such a clock.
MaxBack == 1
MaxWallLoop == 4

\* ------------------------------------------------------- program constants
\* GestureDetector.__init__: self.sos_trigger_duration = 3.0
sos_trigger_duration == 3

\* Python's None, for the optional time and the optional thread: every time
\* and every thread identifier of the model is >= 0.
None == -1

\* Landmark indices read by the classifier (thumb first, then the four fingers).
finger_tips == <<4, 8, 12, 16, 20>>
finger_pips == <<3, 6, 10, 14, 18>>

VARIABLES
    now,                \* the clock read by time.time()
    palm_start_time,    \* GestureDetector.palm_start_time (None or a time)
    current_gesture,    \* GestureDetector.current_gesture
    is_sos,             \* the flag returned by the last detect_gesture call
    log,                \* history: one record per detect_gesture call
    results,            \* the pose model's result handed to the classifier
                        \* in the classifier specification
    is_alerting,        \* AlertSystem.is_alerting
    stop_alert,         \* AlertSystem.stop_alert
    alert_thread,       \* AlertSystem.alert_thread (None or a thread)
    alarm_sound,        \* TRUE: a Sound object; FALSE: None (no sound)
    mixer,              \* pygame.mixer: "init" or "quit"
    sounding,           \* TRUE while the mixer is playing the alarm clip
    threads,            \* position of every playback worker thread
    pc,                 \* position of the primary thread
    stack,              \* return labels of the primary thread's calls
    calls,              \* history: the AlertSystem calls made so far
    play_failed,        \* history: alarm_sound.play() has raised
    stop_pending,       \* history: a stop was requested and no worker has
                        \* evaluated its loop condition since
    running,            \* SafetyApp.running
    cap,                \* SafetyApp.cap: "none" (None), "closed" (a capture
                        \* that did not open), "open" or "released"
    previous_sos_state, \* local of SafetyApp.run
    teardown,           \* history: the release steps cleanup() has done
    attempted,          \* history: the resources cleanup() has tried to release
    edges               \* history: per frame, the SOS value and the
                        \* AlertSystem call the loop made on it

detVars == <<now, palm_start_time, current_gesture, is_sos, log, results>>

alertVars == <<is_alerting, stop_alert, alert_thread, alarm_sound, mixer,
               sounding, threads, play_failed, stop_pending>>

mainVars == <<pc, stack, calls>>

appVars == <<running, cap, previous_sos_state, teardown, attempted, edges>>

vars == <<now, palm_start_time, current_gesture, is_sos, log, results,
          is_alerting, stop_alert, alert_thread, alarm_sound, mixer,
          sounding, threads, pc, stack, calls, play_failed, stop_pending,
          running, cap, previous_sos_state, teardown, attempted, edges>>

\* ------------------------------------------------------------- landmarks
\* A landmark set for one hand: 21 points with x and y.  d[k] says where the
\* tip of finger k lies with respect to its joint: for the thumb along x
\* (1: tip.x > joint.x), for the other four along y (1: tip.y < joint.y);
\* 0 puts the tip level with the joint.
MakeHand(d) ==
    [i \in 0..20 |->
        IF i = 4 THEN [x |-> 1 + d[1], y |-> 1]
        ELSE IF i \in {8, 12, 16, 20} THEN [x |-> 1, y |-> 1 - d[i \div 4]]
        ELSE [x |-> 1, y |-> 1]]

OpenPalm   == MakeHand(<<1, 1, 1, 1, 1>>)
ThumbIn    == MakeHand(<<-1, 1, 1, 1, 1>>)
ClosedFist == MakeHand(<<-1, -1, -1, -1, -1>>)
HalfOpen   == MakeHand(<<1, -1, 1, -1, 0>>)

\* What the pose model may report for a frame (results.multi_hand_landmarks):
\* no hand, or the one hand it tracks (max_num_hands = 1).
FrameResults == {<<>>, <<OpenPalm>>, <<ThumbIn>>, <<ClosedFist>>, <<HalfOpen>>}

\* ------------------------------------------------------------ classifier
\* The counting loops of _is_fist and _is_palm: how many of the five
\* per-finger tests hold.
RECURSIVE CountFingers(_)
CountFingers(tests) ==
    IF tests = <<>> THEN 0
    ELSE (IF Head(tests) THEN 1 ELSE 0) + CountFingers(Tail(tests))

FingerClosed(landmarks, i) ==
    IF i = 1
    THEN landmarks[finger_tips[1]].x < landmarks[finger_pips[1]].x
    ELSE landmarks[finger_tips[i]].y > landmarks[finger_pips[i]].y

FingerExtended_OrLevel(landmarks, i) ==
    IF i = 1
    THEN landmarks[finger_tips[1]].x >= landmarks[finger_pips[1]].x
    ELSE landmarks[finger_tips[i]].y <= landmarks[finger_pips[i]].y

FingerExtended(landmarks, i) ==
    IF i = 1
    THEN landmarks[finger_tips[1]].x > landmarks[finger_pips[1]].x
    ELSE landmarks[finger_tips[i]].y < landmarks[finger_pips[i]].y

is_fist(landmarks) ==
    CountFingers([i \in 1..5 |-> FingerClosed(landmarks, i)]) >= 4

is_palm(landmarks) ==
    CountFingers([i \in 1..5 |-> FingerExtended(landmarks, i)]) >= 4

\* ---------------------------------------------------------------- timer
\* "Start timer if palm just detected": the start time after a PALM frame.
TimerStart_Restart(current_time) == current_time

TimerStart(current_time) ==
    IF palm_start_time = None THEN current_time ELSE palm_start_time

\* "Check if palm held for SOS duration".
HeldLongEnough_Exactly(elapsed_time) == elapsed_time = sos_trigger_duration

HeldLongEnough(elapsed_time) == elapsed_time >= sos_trigger_duration

\* The timer after a frame that is not PALM.
TimerReset_Keep == palm_start_time

TimerReset == None

\* GestureDetector.detect_gesture on the pose model's result for one frame,
\* with current_time the value time.time() returns inside the call.
detect_gesture(multi_hand_landmarks, current_time) ==
    IF multi_hand_landmarks # <<>> /\ is_palm(multi_hand_landmarks[1])
    THEN /\ current_gesture' = "PALM"
         /\ palm_start_time' = TimerStart(current_time)
         /\ is_sos' = HeldLongEnough(current_time - palm_start_time')
    ELSE /\ current_gesture' =
                IF multi_hand_landmarks # <<>> /\ is_fist(multi_hand_landmarks[1])
                THEN "FIST" ELSE "NONE"
         /\ palm_start_time' = TimerReset
         /\ is_sos' = FALSE

\* GestureDetector.__init__
InitDetector ==
    /\ now = 0
    /\ palm_start_time = None
    /\ current_gesture = "NONE"
    /\ is_sos = FALSE
    /\ log = <<>>
    /\ results = <<>>

\* ---------------------------------------------------------- AlertSystem
Threads == 1..MaxThreads

\* Positions of a playback worker in _play_alarm_loop.
\*   "unborn"          no thread object occupies this place
\*   "check_stop"      about to read self.stop_alert in the while condition
\*   "check_alerting"  has read stop_alert = False, about to read is_alerting
\*   "body"            inside the loop, about to play (or to skip playing)
\*   "sleep"           in time.sleep
\*   "exit"            has left the loop; the thread has not finished yet
\*   "dead"            the thread has finished
LoopStates == {"check_stop", "check_alerting", "body", "sleep"}

\* threading.Thread.is_alive
is_alive(t) == threads[t] \in LoopStates \cup {"exit"}

\* AlertSystem.__init__: _generate_alarm_sound leaves a Sound or, when
\* synthesis fails, None.
InitAlertSystem ==
    /\ is_alerting = FALSE
    /\ alert_thread = None
    /\ stop_alert = FALSE
    /\ alarm_sound \in BOOLEAN
    /\ mixer = "init"
    /\ sounding = FALSE
    /\ threads = [t \in Threads |-> "unborn"]
    /\ play_failed = FALSE
    /\ stop_pending = FALSE

\* Return from the current call of the primary thread.
Return ==
    /\ pc' = Head(stack)
    /\ stack' = Tail(stack)

\* The primary thread calls operation op, to continue at ret afterwards.
Call(op, ret) ==
    /\ pc' = op
    /\ stack' = <<ret>> \o stack

\* --- trigger_alert
\* "if not self.is_alerting": whether the call does anything.
TriggerGuard == ~is_alerting

\* Lines 91-92: test is_alerting, set it.
TriggerEnter ==
    /\ pc = "trigger_alert"
    /\ IF TriggerGuard
       THEN /\ is_alerting' = TRUE
            /\ pc' = "trig_clear"
            /\ UNCHANGED stack
       ELSE /\ Return
            /\ UNCHANGED is_alerting
    /\ UNCHANGED <<stop_alert, alert_thread, alarm_sound, mixer, sounding,
                   threads, play_failed, stop_pending, calls, detVars, appVars>>

\* Line 93: self.stop_alert = False.
TriggerClearStop ==
    /\ pc = "trig_clear"
    /\ stop_alert' = FALSE
    /\ pc' = "trig_start"
    /\ UNCHANGED <<is_alerting, alert_thread, alarm_sound, mixer, sounding,
                   threads, play_failed, stop_pending, stack, calls, detVars, appVars>>

\* "if self.alert_thread is None or not self.alert_thread.is_alive()".
NeedsThread_Always == TRUE

NeedsThread == alert_thread = None \/ ~is_alive(alert_thread)

\* Places a new thread object can take.
FreeThreads == {t \in Threads : threads[t] \in {"unborn", "dead"}}

\* Lines 96-99: create and start the worker unless one is alive.
TriggerStart ==
    /\ pc = "trig_start"
    /\ IF NeedsThread
       THEN /\ FreeThreads # {}
            /\ LET t == CHOOSE f \in FreeThreads : \A g \in FreeThreads : f <= g
               IN /\ alert_thread' = t
                  /\ threads' = [threads EXCEPT ![t] = "check_stop"]
       ELSE UNCHANGED <<alert_thread, threads>>
    /\ Return
    /\ UNCHANGED <<is_alerting, stop_alert, alarm_sound, mixer, sounding,
                   play_failed, stop_pending, calls, detVars, appVars>>

\* --- stop_alert_sound
\* "if self.is_alerting": whether the call does anything.
StopGuard_Always == TRUE

StopGuard_Inverted == ~is_alerting

StopGuard == is_alerting

\* Lines 105-106: test is_alerting, clear it.
StopEnter ==
    /\ pc = "stop_alert_sound"
    /\ IF StopGuard
       THEN /\ is_alerting' = FALSE
            /\ pc' = "stop_flag"
            /\ UNCHANGED stack
       ELSE /\ Return
            /\ UNCHANGED is_alerting
    /\ UNCHANGED <<stop_alert, alert_thread, alarm_sound, mixer, sounding,
                   threads, play_failed, stop_pending, calls, detVars, appVars>>

\* Line 107: self.stop_alert = True.
StopSetFlag ==
    /\ pc = "stop_flag"
    /\ stop_alert' = TRUE
    /\ stop_pending' = (\E t \in Threads : threads[t] \in LoopStates)
    /\ pc' = "stop_mixer"
    /\ UNCHANGED <<is_alerting, alert_thread, alarm_sound, mixer, sounding,
                   threads, play_failed, stack, calls, detVars, appVars>>

\* The threads stop_alert_sound() waits for before it returns: lines 101-116
\* hold no join(), so none.
StopJoins_Worker == {t \in Threads : is_alive(t)}

StopJoins == {}

\* Lines 110-116: pygame.mixer.stop() halts every channel; on a mixer that
\* was quit it raises, which the bare except swallows (nothing sounds on
\* such a mixer).
StopMixer ==
    /\ pc = "stop_mixer"
    /\ \A t \in StopJoins : ~is_alive(t)
    /\ sounding' = IF alarm_sound /\ mixer = "init" THEN FALSE ELSE sounding
    /\ Return
    /\ UNCHANGED <<is_alerting, stop_alert, alert_thread, alarm_sound, mixer,
                   threads, play_failed, stop_pending, calls, detVars, appVars>>

\* --- release
\* Line 120: release() calls stop_alert_sound().
ReleaseEnter ==
    /\ pc = "release"
    /\ Call("stop_alert_sound", "rel_quit")
    /\ UNCHANGED <<alertVars, calls, detVars, appVars>>

\* Lines 121-124: pygame.mixer.quit(), any error swallowed.
ReleaseQuit ==
    /\ pc = "rel_quit"
    /\ mixer' = "quit"
    /\ sounding' = FALSE
    /\ Return
    /\ UNCHANGED <<is_alerting, stop_alert, alert_thread, alarm_sound,
                   threads, play_failed, stop_pending, calls, detVars, appVars>>

\* --- _play_alarm_loop, run by worker thread t
\* Where the worker goes after time.sleep: back to the while condition.
AfterSleep_NoCheck == "body"

AfterSleep == "check_stop"

\* Line 73, first operand: "not self.stop_alert".
WorkerCheckStop(t) ==
    /\ threads[t] = "check_stop"
    /\ threads' = [threads EXCEPT ![t] =
                      IF stop_alert THEN "exit" ELSE "check_alerting"]
    /\ stop_pending' = IF stop_alert THEN FALSE ELSE stop_pending
    /\ UNCHANGED <<is_alerting, stop_alert, alert_thread, alarm_sound, mixer,
                   sounding, play_failed, mainVars, detVars, appVars>>

\* Line 73, second operand: "self.is_alerting".
WorkerCheckAlerting(t) ==
    /\ threads[t] = "check_alerting"
    /\ threads' = [threads EXCEPT ![t] = IF is_alerting THEN "body" ELSE "exit"]
    /\ stop_pending' = FALSE
    /\ UNCHANGED <<is_alerting, stop_alert, alert_thread, alarm_sound, mixer,
                   sounding, play_failed, mainVars, detVars, appVars>>

\* Lines 74-84: with a sound, play it (play raises on a mixer that was quit,
\* and may fail on a working one; the handler prints and breaks); without
\* one, go straight to sleep.
WorkerBody(t) ==
    /\ threads[t] = "body"
    /\ IF alarm_sound
       THEN \E ok \in BOOLEAN :
               /\ ok => mixer = "init"
               /\ sounding' = IF ok THEN TRUE ELSE sounding
               /\ play_failed' = (play_failed \/ ~ok)
               /\ threads' = [threads EXCEPT ![t] = IF ok THEN "sleep" ELSE "exit"]
       ELSE /\ threads' = [threads EXCEPT ![t] = "sleep"]
            /\ UNCHANGED <<sounding, play_failed>>
    /\ UNCHANGED <<is_alerting, stop_alert, alert_thread, alarm_sound, mixer,
                   stop_pending, mainVars, detVars, appVars>>

\* time.sleep returns.
WorkerWake(t) ==
    /\ threads[t] = "sleep"
    /\ threads' = [threads EXCEPT ![t] = AfterSleep]
    /\ UNCHANGED <<is_alerting, stop_alert, alert_thread, alarm_sound, mixer,
                   sounding, play_failed, stop_pending, mainVars, detVars, appVars>>

\* The thread function has returned; the thread finishes.
WorkerFinish(t) ==
    /\ threads[t] = "exit"
    /\ threads' = [threads EXCEPT ![t] = "dead"]
    /\ UNCHANGED <<is_alerting, stop_alert, alert_thread, alarm_sound, mixer,
                   sounding, play_failed, stop_pending, mainVars, detVars, appVars>>

WorkerStep ==
    \E t \in Threads :
        \/ WorkerCheckStop(t)
        \/ WorkerCheckAlerting(t)
        \/ WorkerBody(t)
        \/ WorkerWake(t)
        \/ WorkerFinish(t)

\* The clip that is playing comes to its end.
SoundEnds ==
    /\ sounding
    /\ sounding' = FALSE
    /\ UNCHANGED <<is_alerting, stop_alert, alert_thread, alarm_sound, mixer,
                   threads, play_failed, stop_pending, mainVars, detVars, appVars>>

\* The steps of the primary thread inside AlertSystem.
AlertStep ==
    \/ TriggerEnter
    \/ TriggerClearStop
    \/ TriggerStart
    \/ StopEnter
    \/ StopSetFlag
    \/ StopMixer
    \/ ReleaseEnter
    \/ ReleaseQuit

\* SafetyApp.__init__
InitSafetyApp ==
    /\ cap = "none"
    /\ running = FALSE
    /\ previous_sos_state = FALSE
    /\ teardown = <<>>
    /\ attempted = {}
    /\ edges = <<>>

\* ---------------------------------------------------- alert specification
\* The primary thread makes any sequence of AlertSystem calls.
AlertOps == {"trigger_alert", "stop_alert_sound", "release"}

InitAlert ==
    /\ InitDetector
    /\ InitAlertSystem
    /\ InitSafetyApp
    /\ pc = "idle"
    /\ stack = <<>>
    /\ calls = <<>>

CallOp ==
    /\ pc = "idle"
    /\ Len(calls) < MaxCalls
    /\ \E op \in AlertOps :
          /\ Call(op, "idle")
          /\ calls' = Append(calls, op)
    /\ UNCHANGED <<alertVars, detVars, appVars>>

NextAlert ==
    \/ CallOp
    \/ AlertStep
    \/ WorkerStep
    \/ SoundEnds

SpecAlert == InitAlert /\ [][NextAlert]_vars

\* The same, with the scheduler running every thread that can run: a worker
\* that can take a step eventually takes it, and a call the primary thread
\* has begun runs to its end.
SpecAlertFair ==
    /\ InitAlert
    /\ [][NextAlert]_vars
    /\ WF_vars(WorkerStep)
    /\ WF_vars(AlertStep)

LiveThreads == {t \in Threads : is_alive(t)}

LastCall == IF calls = <<>> THEN "none" ELSE calls[Len(calls)]

\* ------------------------------------------------------------ SafetyApp
\* Lines 96-99: the AlertSystem call the loop makes for a frame whose SOS
\* value is is_sos_now, given the previous frame's value.
EdgeCall_Level(is_sos_now, previous) ==
    IF is_sos_now THEN "trigger_alert"
    ELSE IF previous THEN "stop_alert_sound"
    ELSE "none"

EdgeCall(is_sos_now, previous) ==
    IF is_sos_now /\ ~previous THEN "trigger_alert"
    ELSE IF ~is_sos_now /\ previous THEN "stop_alert_sound"
    ELSE "none"

\* Lines 62-78: run() starts with initialize_camera().  The capture opens;
\* or it does not open; or cv2.VideoCapture raises (self.cap stays None); or
\* a cap.set call raises on the open capture.  On every failure
\* initialize_camera returns False and run() returns at line 65.
RunStart ==
    /\ pc = "run"
    /\ \E outcome \in {"opened", "not_opened", "capture_error", "set_error"} :
          /\ cap' = CASE outcome = "opened" -> "open"
                      [] outcome = "not_opened" -> "closed"
                      [] outcome = "capture_error" -> "none"
                      [] outcome = "set_error" -> "open"
          /\ running' = (outcome = "opened")
          /\ pc' = IF outcome = "opened" THEN "loop" ELSE "returned"
    /\ previous_sos_state' = FALSE
    /\ UNCHANGED <<stack, calls, teardown, attempted, edges, alertVars, detVars>>

\* History kept per frame: the time the current uninterrupted PALM run has
\* spanned up to a frame that comes d seconds after the previous one (0 on a
\* frame that is not PALM and on the first PALM frame of a run).
RunSpan(palm, d) ==
    IF palm /\ edges # <<>> /\ edges[Len(edges)].palm
    THEN edges[Len(edges)].span + d
    ELSE 0

\* Lines 96-99 for the frame just classified, d seconds after the previous
\* one: record it and make the AlertSystem call its SOS value asks for.
Dispatch(d) ==
    LET call == EdgeCall(is_sos', previous_sos_state)
        palm == (current_gesture' = "PALM")
    IN /\ edges' = Append(edges, [sos |-> is_sos', call |-> call,
                                  palm |-> palm, span |-> RunSpan(palm, d)])
       /\ IF call = "none"
          THEN pc' = "render" /\ UNCHANGED stack
          ELSE Call(call, "render")

\* Lines 81-99: one frame is read, classified and dispatched.
Frame(steps, frames) ==
    /\ pc = "loop"
    /\ running
    /\ Len(edges) < frames
    /\ \E hands \in FrameResults, d \in steps :
          /\ now + d >= 0
          /\ now + d <= MaxTime
          /\ now' = now + d
          /\ detect_gesture(hands, now')
          /\ Dispatch(d)
    /\ UNCHANGED <<log, results, calls, running, cap, previous_sos_state,
                   teardown, attempted, alertVars>>

\* A frame read while the clock read at line 133 does not go backwards.
FrameOk == Frame(0..MaxStep, MaxLoop)

\* A frame read while time.time(), a wall clock, may have been set back by up
\* to MaxBack since the previous frame.
FrameWall == Frame((0 - MaxBack)..MaxStep, MaxWallLoop)

\* Lines 83-87: cap.read() reports failure; the loop breaks.
ReadFail ==
    /\ pc = "loop"
    /\ running
    /\ pc' = "cleanup"
    /\ UNCHANGED <<stack, calls, appVars, alertVars, detVars>>

\* Lines 119-124: KeyboardInterrupt or another exception raised while the
\* frame is read or drawn; the handler prints and the finally clause runs.
LoopError ==
    /\ pc \in {"loop", "render"}
    /\ running
    /\ pc' = "cleanup"
    /\ UNCHANGED <<stack, calls, appVars, alertVars, detVars>>

\* Lines 101-117: remember the SOS value, draw, show, poll the keyboard.
Render ==
    /\ pc = "render"
    /\ previous_sos_state' = is_sos
    /\ \E quit \in BOOLEAN : pc' = IF quit THEN "cleanup" ELSE "loop"
    /\ UNCHANGED <<stack, calls, running, cap, teardown, attempted, edges,
                   alertVars, detVars>>

\* Lines 126-131: cleanup() begins with alert_system.release().
Cleanup ==
    /\ pc = "cleanup"
    /\ Call("release", "cleanup_pose")
    /\ teardown' = Append(teardown, "alert")
    /\ attempted' = attempted \cup {"alert"}
    /\ UNCHANGED <<calls, running, cap, previous_sos_state, edges, alertVars,
                   detVars>>

\* Line 134 and GestureDetector.release: self.hands.close(); an exception it
\* raises leaves cleanup() and run().
CleanupPose ==
    /\ pc = "cleanup_pose"
    /\ \E ok \in BOOLEAN :
          /\ pc' = IF ok THEN "cleanup_cap" ELSE "crashed"
          /\ teardown' = IF ok THEN Append(teardown, "pose") ELSE teardown
    /\ attempted' = attempted \cup {"pose"}
    /\ UNCHANGED <<stack, calls, running, cap, previous_sos_state, edges,
                   alertVars, detVars>>

\* Lines 137-138: "if self.cap: self.cap.release()".
CleanupCap ==
    /\ pc = "cleanup_cap"
    /\ IF cap = "none"
       THEN /\ pc' = "cleanup_windows"
            /\ UNCHANGED <<cap, teardown, attempted>>
       ELSE \E ok \in BOOLEAN :
               /\ pc' = IF ok THEN "cleanup_windows" ELSE "crashed"
               /\ cap' = IF ok THEN "released" ELSE cap
               /\ teardown' = IF ok THEN Append(teardown, "capture") ELSE teardown
               /\ attempted' = attempted \cup {"capture"}
    /\ UNCHANGED <<stack, calls, running, previous_sos_state, edges, alertVars,
                   detVars>>

\* Lines 141-143: cv2.destroyAllWindows(); run() returns.
CleanupWindows ==
    /\ pc = "cleanup_windows"
    /\ \E ok \in BOOLEAN :
          /\ pc' = IF ok THEN "returned" ELSE "crashed"
          /\ teardown' = IF ok THEN Append(teardown, "windows") ELSE teardown
    /\ attempted' = attempted \cup {"windows"}
    /\ UNCHANGED <<stack, calls, running, cap, previous_sos_state, edges,
                   alertVars, detVars>>

\* ---------------------------------------------- application specification
\* main(): SafetyApp() and run(), with the playback workers it starts.
Init ==
    /\ InitDetector
    /\ InitAlertSystem
    /\ InitSafetyApp
    /\ pc = "run"
    /\ stack = <<>>
    /\ calls = <<>>

\* Every step of the application other than reading a frame.
OtherStep ==
    \/ RunStart
    \/ ReadFail
    \/ LoopError
    \/ Render
    \/ Cleanup
    \/ CleanupPose
    \/ CleanupCap
    \/ CleanupWindows
    \/ AlertStep
    \/ WorkerStep
    \/ SoundEnds

Next ==
    \/ FrameOk
    \/ OtherStep

\* The application under a wall clock that can be set back.
NextWall ==
    \/ FrameWall
    \/ OtherStep

SpecWall == Init /\ [][NextWall]_vars

Spec == Init /\ [][Next]_vars

\* ------------------------------------------------- start-up specification
\* main() from its first line: nothing is constructed yet.
InitMain ==
    /\ InitDetector
    /\ InitSafetyApp
    /\ is_alerting = FALSE
    /\ alert_thread = None
    /\ stop_alert = FALSE
    /\ alarm_sound = FALSE
    /\ mixer = "uninit"
    /\ sounding = FALSE
    /\ threads = [t \in Threads |-> "unborn"]
    /\ play_failed = FALSE
    /\ stop_pending = FALSE
    /\ pc = "main"
    /\ stack = <<>>
    /\ calls = <<>>

\* main.py lines 146-148 and 26-31, alert_system.py lines 20-31: SafetyApp()
\* builds the detector and then the AlertSystem, whose __init__ calls
\* pygame.mixer.init() outside any try block: when the mixer is unavailable
\* the exception leaves the constructors and main().  A failure to synthesise
\* the tone is caught in _generate_alarm_sound and leaves alarm_sound None.
Construct ==
    /\ pc = "main"
    /\ \E mixer_ok \in BOOLEAN, sound_ok \in BOOLEAN :
          /\ mixer' = IF mixer_ok THEN "init" ELSE "failed"
          /\ alarm_sound' = (mixer_ok /\ sound_ok)
          /\ pc' = IF mixer_ok THEN "run" ELSE "crashed"
    /\ UNCHANGED <<is_alerting, stop_alert, alert_thread, sounding, threads,
                   play_failed, stop_pending, stack, calls, detVars, appVars>>

NextMain ==
    \/ Construct
    \/ Next

SpecMain == InitMain /\ [][NextMain]_vars

\* C12: an audio-subsystem failure never aborts the application: with the
\* mixer unavailable at initialisation the program still runs.
C12_AudioFailureNeverAborts == mixer = "failed" => pc # "crashed"

\* The SOS value of the frame before frame i (FALSE before the first one).
PreviousSos(i) == IF i = 1 THEN FALSE ELSE edges[i - 1].sos

\* C2: on every frame trigger_alert() is called exactly when the previous SOS
\* value was false and this one is true, stop_alert_sound() exactly when the
\* previous was true and this one is false, and nothing is called otherwise.
C2_EdgeTriggered ==
    \A i \in 1..Len(edges) :
        /\ edges[i].call = "trigger_alert" <=> (~PreviousSos(i) /\ edges[i].sos)
        /\ edges[i].call = "stop_alert_sound" <=> (PreviousSos(i) /\ ~edges[i].sos)
        /\ edges[i].call = "none" <=> (PreviousSos(i) = edges[i].sos)

\* The SOS sequence false, false, true, true, false with one start at its
\* third frame and one stop at its fifth.
C2_Witness ==
    /\ Len(edges) = 5
    /\ [i \in 1..5 |-> edges[i].sos] = <<FALSE, FALSE, TRUE, TRUE, FALSE>>
    /\ [i \in 1..5 |-> edges[i].call] =
          <<"none", "none", "trigger_alert", "none", "stop_alert_sound">>
    /\ pc = "render"

\* First frame of the uninterrupted PALM run that frame i belongs to.
RECURSIVE RunFirstFrame(_)
RunFirstFrame(i) ==
    IF i > 1 /\ edges[i - 1].palm THEN RunFirstFrame(i - 1) ELSE i

\* C15: in an uninterrupted stream of PALM frames the SOS signal is false on
\* every frame before the run has spanned 3 seconds and true from that frame
\* on, and trigger_alert() is called on exactly one frame of the run: the
\* first one at which the run has spanned 3 seconds or more.
C15_OneStartPerHeldPalm ==
    \A i \in 1..Len(edges) :
        edges[i].palm =>
            /\ edges[i].sos <=> edges[i].span >= 3
            /\ edges[i].call = "trigger_alert" <=>
                  /\ edges[i].span >= 3
                  /\ \A k \in RunFirstFrame(i)..(i - 1) : edges[k].span < 3

\* Five PALM frames one second apart: the fourth is the threshold frame and
\* the only one with an alarm start.
C15_Witness ==
    /\ Len(edges) = 5
    /\ \A i \in 1..5 : edges[i].palm /\ edges[i].span = i - 1
    /\ [i \in 1..5 |-> edges[i].sos] = <<FALSE, FALSE, FALSE, TRUE, TRUE>>
    /\ [i \in 1..5 |-> edges[i].call] =
          <<"none", "none", "none", "trigger_alert", "none">>
    /\ pc = "render"

\* C16: when every uninterrupted PALM run of the stream spans less than 3
\* seconds, the SOS signal is never true and trigger_alert() is never called.
C16_ShortRunsNeverAlarm ==
    (\A i \in 1..Len(edges) : edges[i].span < 3)
        => \A i \in 1..Len(edges) :
              ~edges[i].sos /\ edges[i].call # "trigger_alert"

\* Two PALM runs of 2 seconds each, one frame that is not PALM between them:
\* 4 seconds of PALM in all, and no SOS.
C16_Witness ==
    /\ Len(edges) = 5
    /\ [i \in 1..5 |-> edges[i].palm] = <<TRUE, TRUE, FALSE, TRUE, TRUE>>
    /\ [i \in 1..5 |-> edges[i].span] = <<0, 2, 0, 0, 2>>
    /\ \A i \in 1..5 : ~edges[i].sos /\ edges[i].call = "none"
    /\ ~is_alerting
    /\ pc = "render"

\* C19: at the end of every frame-loop iteration, after the edge dispatch,
\* is_alerting equals the SOS value returned for the frame, and once line 101
\* has run it equals previous_sos_state as well.
C19_AlarmFollowsSos ==
    /\ pc = "render" => is_alerting = is_sos
    /\ pc = "loop" => is_alerting = is_sos /\ is_alerting = previous_sos_state

\* The alarm was started by one frame and stopped by a later one, and the
\* iteration of the stopping frame has ended.
C19_Witness ==
    /\ pc = "loop"
    /\ \E i, j \in 1..Len(edges) :
          /\ i < j
          /\ j = Len(edges)
          /\ edges[i].call = "trigger_alert"
          /\ edges[j].call = "stop_alert_sound"
    /\ ~is_alerting /\ ~is_sos /\ ~previous_sos_state

\* C20: within one uninterrupted run of PALM frames the SOS output falls
\* from true to false only when the clock read by detect_gesture has gone
\* backwards since the previous frame; with a clock that never decreases it
\* is monotone within the run.
C20_SosFallsOnlyOnClockStepBack ==
    \A i \in 2..Len(edges) :
        (edges[i - 1].palm /\ edges[i].palm /\ edges[i - 1].sos /\ ~edges[i].sos)
            => edges[i].span < edges[i - 1].span

\* One PALM run in which the clock is set back after the threshold: the signal
\* falls and rises again, and the alarm is started twice.
C20_Witness ==
    /\ Len(edges) = 4
    /\ \A i \in 1..4 : edges[i].palm
    /\ [i \in 1..4 |-> edges[i].span] = <<0, 3, 2, 3>>
    /\ [i \in 1..4 |-> edges[i].sos] = <<FALSE, TRUE, FALSE, TRUE>>
    /\ [i \in 1..4 |-> edges[i].call] =
          <<"none", "trigger_alert", "stop_alert_sound", "trigger_alert">>
    /\ pc = "render"
    /\ is_alerting

\* The positions of the primary thread inside AlertSystem.
InAlertCall ==
    pc \in {"trigger_alert", "trig_clear", "trig_start", "stop_alert_sound",
            "stop_flag", "stop_mixer", "release", "rel_quit"}

\* The largest number of AlertSystem steps the primary thread still has to
\* take from a position before it returns from that position's method.
StepsFrom(label) ==
    CASE label \in {"trigger_alert", "stop_alert_sound"} -> 3
      [] label \in {"trig_clear", "stop_flag"} -> 2
      [] label \in {"trig_start", "stop_mixer", "rel_quit"} -> 1
      [] label = "release" -> 5
      [] OTHER -> 0

RECURSIVE StepsOnStack(_)
StepsOnStack(s) ==
    IF s = <<>> THEN 0 ELSE StepsFrom(Head(s)) + StepsOnStack(Tail(s))

StepsLeft == StepsFrom(pc) + StepsOnStack(stack)

\* C17: inside trigger_alert(), stop_alert_sound() and release() the primary
\* thread can always take its next step, whatever the workers are doing, and
\* every such step brings the call nearer to its return: a call ends within
\* five steps of the primary thread and never waits for a worker.
C17_PrimaryNeverWaits ==
    /\ [](InAlertCall => ENABLED AlertStep)
    /\ [][AlertStep => StepsLeft' < StepsLeft]_vars

\* stop_alert_sound() has returned while the worker started by the call
\* before it has not run at all, and release() while a worker is asleep
\* between two repetitions.
C17_Witness ==
    /\ pc = "idle"
    /\ \/ /\ calls = <<"trigger_alert", "stop_alert_sound">>
          /\ alert_thread # None
          /\ threads[alert_thread] = "check_stop"
       \/ /\ LastCall = "release"
          /\ \E t \in Threads : threads[t] = "sleep"

FullTeardown == <<"alert", "pose", "capture", "windows">>

\* C10: whenever run() has returned, the teardown sequence stop alarm,
\* release pose model, release capture device, close windows has been
\* executed and the audio subsystem is released.
C10_TeardownOnEveryExit ==
    pc = "returned" => (teardown = FullTeardown /\ mixer = "quit")

\* C11: each release step of the teardown is best-effort: when run() ends
\* because a release failed, the release of every resource was attempted.
C11_BestEffortTeardown ==
    pc = "crashed" => attempted = {"alert", "pose", "capture", "windows"}

\* --------------------------------------------------- claims: AlertSystem
\* C3: in every reachable state, whatever calls the primary thread makes and
\* however the worker's steps interleave with them, at most one playback
\* worker thread is alive.
C3_OneWorker == Cardinality(LiveThreads) <= 1

\* A stop followed at once by a start, the worker of the first start still
\* sleeping when the second start has returned.
C3_Witness ==
    /\ pc = "idle"
    /\ calls = <<"trigger_alert", "stop_alert_sound", "trigger_alert">>
    /\ is_alerting
    /\ \E t \in Threads : threads[t] = "sleep"

\* C4: once stop_alert_sound() has returned, and until the next
\* trigger_alert(), no alarm audio is sounding.
C4_SilentAfterStop ==
    (pc = "idle" /\ LastCall = "stop_alert_sound") => ~sounding

\* C5: whenever trigger_alert() has returned with the alert active and no
\* playback error has occurred, a worker is in its playback loop.
C5_WorkerLoopsWhileActive ==
    (pc = "idle" /\ is_alerting /\ ~play_failed)
        => \E t \in Threads : threads[t] \in LoopStates

\* C7: after two trigger_alert() calls in a row (and no playback error)
\* exactly one playback worker is alive.
C7_TwiceOneWorker ==
    (/\ pc = "idle"
     /\ Len(calls) >= 2
     /\ calls[Len(calls)] = "trigger_alert"
     /\ calls[Len(calls) - 1] = "trigger_alert"
     /\ ~play_failed)
        => Cardinality(LiveThreads) = 1

\* The step in which stop_alert_sound() returns to its caller.
StopReturns ==
    /\ pc \in {"stop_alert_sound", "stop_mixer"}
    /\ pc' = Head(stack)
    /\ stack' = Tail(stack)

\* C8: stop_alert_sound() always returns to its caller with is_alerting =
\* FALSE, and when the alert is already inactive (a second stop in a row, or
\* no trigger_alert() before it) the call returns at once and changes no state.
C8_StopIdempotent ==
    [][/\ StopReturns => ~is_alerting'
       /\ (pc = "stop_alert_sound" /\ pc' # pc /\ ~is_alerting)
             => (StopReturns /\ UNCHANGED alertVars)]_vars

\* Two stops in a row have returned.
C8_Witness ==
    /\ pc = "idle"
    /\ calls = <<"trigger_alert", "stop_alert_sound", "stop_alert_sound">>
    /\ ~is_alerting
    /\ stop_alert

\* The step in which release() returns to its caller.
ReleaseReturns ==
    /\ pc = "rel_quit"
    /\ pc' = Head(stack)
    /\ stack' = Tail(stack)

\* C13: release() always comes back to its caller, whether or not
\* trigger_alert() was ever called, with the alert inactive, the mixer quit
\* and the stop flag set for any worker that is still alive.
C13_ReleaseIdempotent ==
    [][(pc = "rel_quit" /\ pc' # pc)
          => /\ ReleaseReturns
             /\ ~is_alerting'
             /\ mixer' = "quit"
             /\ (LiveThreads # {} => stop_alert')]_vars

\* release() on an active alarm and then a second release() have returned.
C13_Witness ==
    /\ pc = "idle"
    /\ calls = <<"trigger_alert", "release", "release">>
    /\ ~is_alerting
    /\ mixer = "quit"

\* C9 as stated: once a stop has been requested, the worker's next evaluation
\* of its loop condition makes it leave the loop.
C9_StopSeenAtNextCheck ==
    [][\A t \in Threads :
          (stop_pending /\ threads[t] \in {"check_stop", "check_alerting"})
              => threads'[t] # "body"]_vars

\* C9 as amended: a worker that evaluates its loop condition while the stop
\* request stands leaves the loop, and under fair scheduling a standing stop
\* request leads to no worker being alive, unless trigger_alert() re-arms the
\* alert first.
C9_StopSeenUnlessRearmed ==
    /\ [][\A t \in Threads :
             (stop_alert /\ ~is_alerting
                /\ threads[t] \in {"check_stop", "check_alerting"})
                 => threads'[t] \in {threads[t], "exit"}]_vars
    /\ (stop_alert /\ ~is_alerting) ~> (LiveThreads = {} \/ is_alerting)

\* A stop was requested while a worker slept, and the worker has finished.
C9_Witness ==
    /\ LastCall \in {"stop_alert_sound", "release"}
    /\ pc = "idle"
    /\ stop_alert /\ ~is_alerting
    /\ alert_thread # None
    /\ threads[alert_thread] = "dead"

\* ---------------------------------------------- classifier specification
\* The landmark set whose finger k has its tip at tip[k] and its joint at
\* pip[k] on the axis the classifier reads (x for the thumb, y for the other
\* four); the coordinates the classifier does not read are 0.
HandAt(tip, pip) ==
    [i \in 0..20 |->
        IF i = 4 THEN [x |-> tip[1], y |-> 0]
        ELSE IF i = 3 THEN [x |-> pip[1], y |-> 0]
        ELSE IF i \in {8, 12, 16, 20} THEN [x |-> 0, y |-> tip[i \div 4]]
        ELSE IF i \in {6, 10, 14, 18} THEN [x |-> 0, y |-> pip[(i + 2) \div 4]]
        ELSE [x |-> 0, y |-> 0]]

\* Every landmark set over the coordinates 0..MaxCoord.
AllHands ==
    {HandAt(tip, pip) : tip \in [1..5 -> 0..MaxCoord],
                        pip \in [1..5 -> 0..MaxCoord]}

\* The pose model has reported one hand, any landmark set.
InitCls ==
    /\ now = 0
    /\ palm_start_time = None
    /\ current_gesture = "NONE"
    /\ is_sos = FALSE
    /\ log = <<>>
    /\ results \in {<<hand>> : hand \in AllHands}
    /\ InitAlertSystem
    /\ InitSafetyApp
    /\ pc = "idle"
    /\ stack = <<>>
    /\ calls = <<>>

\* detect_gesture classifies the reported hand.
ClsFrame ==
    /\ log = <<>>
    /\ detect_gesture(results, now)
    /\ log' = Append(log, [gesture |-> current_gesture',
                           hand |-> TRUE,
                           t |-> now,
                           sos |-> is_sos'])
    /\ UNCHANGED <<now, results, alertVars, mainVars, appVars>>

NextCls == ClsFrame

SpecCls == InitCls /\ [][NextCls]_vars

\* E, C and the number of fingers whose tip is level with the joint, counted
\* on the raw coordinates of the reported hand.
ThumbDelta == results[1][4].x - results[1][3].x

FingerDelta(k) == results[1][4 * k - 2].y - results[1][4 * k].y

Delta(k) == IF k = 1 THEN ThumbDelta ELSE FingerDelta(k)

ExtendedCount == Cardinality({k \in 1..5 : Delta(k) > 0})

ClosedCount == Cardinality({k \in 1..5 : Delta(k) < 0})

LevelCount == Cardinality({k \in 1..5 : Delta(k) = 0})

\* The classification when _is_fist is tried before _is_palm.
FistFirst ==
    IF is_fist(results[1]) THEN "FIST"
    ELSE IF is_palm(results[1]) THEN "PALM" ELSE "NONE"

\* C18: for every landmark set the gesture is PALM iff E >= 4, FIST iff
\* C >= 4 and NONE otherwise; E >= 4 and C >= 4 never hold together, so
\* trying _is_fist first gives the same gesture; and a finger whose tip is
\* level with its joint is counted in neither E nor C.
C18_ClassifyByCounts ==
    log # <<>> =>
        /\ current_gesture = "PALM" <=> ExtendedCount >= 4
        /\ current_gesture = "FIST" <=> ClosedCount >= 4
        /\ current_gesture = "NONE" <=> (ExtendedCount < 4 /\ ClosedCount < 4)
        /\ ~(ExtendedCount >= 4 /\ ClosedCount >= 4)
        /\ current_gesture = FistFirst
        /\ CountFingers([i \in 1..5 |-> FingerExtended(results[1], i)])
              + CountFingers([i \in 1..5 |-> FingerClosed(results[1], i)])
              = 5 - LevelCount

\* Three fingers extended and two level with their joints: classified NONE.
C18_Witness ==
    /\ log # <<>>
    /\ ExtendedCount = 3
    /\ LevelCount = 2
    /\ current_gesture = "NONE"

\* ------------------------------------------------ detector specification
InitDet ==
    /\ InitDetector
    /\ InitAlertSystem
    /\ InitSafetyApp
    /\ pc = "idle"
    /\ stack = <<>>
    /\ calls = <<>>

\* One call of detect_gesture; the clock never runs backwards.
DetFrame ==
    /\ Len(log) < MaxFrames
    /\ \E hands \in FrameResults, d \in 0..MaxStep :
          /\ now + d <= MaxTime
          /\ now' = now + d
          /\ detect_gesture(hands, now')
          /\ log' = Append(log, [gesture |-> current_gesture',
                                 hand |-> (hands # <<>>),
                                 t |-> now',
                                 sos |-> is_sos'])
    /\ UNCHANGED <<results, alertVars, mainVars, appVars>>

NextDet == DetFrame

SpecDet == InitDet /\ [][NextDet]_vars

\* First index of the uninterrupted PALM run that ends at frame i of the log.
RECURSIVE RunFirst(_)
RunFirst(i) ==
    IF i > 1 /\ log[i - 1].gesture = "PALM" THEN RunFirst(i - 1) ELSE i

\* C1: detect_gesture returns is_sos = TRUE on a frame iff the frame is PALM
\* and at least 3 seconds have passed since the first PALM frame of the
\* current uninterrupted PALM run.
C1_SosIffHeld ==
    \A i \in 1..Len(log) :
        log[i].sos <=>
            /\ log[i].gesture = "PALM"
            /\ log[i].t - log[RunFirst(i)].t >= 3

\* A PALM run whose second frame is below the threshold and whose third frame
\* is the first one at or above it.
C1_Witness ==
    /\ Len(log) >= 3
    /\ \A i \in 1..3 : log[i].gesture = "PALM"
    /\ log[2].t > log[1].t
    /\ log[2].t - log[1].t < 3
    /\ ~log[2].sos
    /\ log[3].t - log[1].t >= 3
    /\ log[3].sos

\* C14: palm_start_time is unset before the first frame, and after every
\* detect_gesture call it is set iff the frame just processed was PALM.
C14_TimerSetIffPalm ==
    IF log = <<>>
    THEN palm_start_time = None
    ELSE (palm_start_time # None) <=> (log[Len(log)].gesture = "PALM")

\* Both directions on one history: a PALM frame (timer set), a frame that is
\* not PALM (timer unset), and the timer set again by the PALM frame after it.
C14_Witness ==
    /\ Len(log) = 3
    /\ log[1].gesture = "PALM"
    /\ log[2].gesture = "FIST"
    /\ log[3].gesture = "PALM"
    /\ palm_start_time = log[3].t
    /\ log[3].t > log[1].t

====
